---------------------------- MODULE Spec2Model ----------------------------
(***************************************************************************)
(* CryptoTextEngine (src/js/cryptotext.js): the timeline state machine,    *)
(* the control registry, the energy sampler, the reveal curve and the      *)
(* glitch transform, driven by requestAnimationFrame.                      *)
(*                                                                         *)
(* Number encodings (exact fixed point, no rounding):                      *)
(*   timestamps (ts, _lastTs, clock)   integer milliseconds                *)
(*   control values                    integer tenths   (10 is 1.0)        *)
(*   energy values                     integer halves   (2 is 1.0)         *)
(*   elapsed, duration                 integer units of 20 microseconds    *)
(*     (1 ms * 0.1 * 0.2: one tick of dt * textSpeed * speed factor)       *)
(* A JavaScript value is a record [t |-> type tag, v |-> payload].         *)
(***************************************************************************)
EXTENDS Integers, Sequences, FiniteSets, TLC

(* ----------------------------- JS values ------------------------------- *)

Num(n) == [t |-> "number", v |-> n]
NaN == [t |-> "NaN", v |-> 0]
Str == [t |-> "string", v |-> 0]
Undefined == [t |-> "undefined", v |-> 0]
Throw == [t |-> "throw", v |-> 0]

\* typeof v === 'number' (NaN is of type number)
IsNumberType(x) == x.t \in {"number", "NaN"}

Abs(n) == IF n < 0 THEN -n ELSE n
Max(a, b) == IF a >= b THEN a ELSE b

(* ------------------------ exact big naturals --------------------------- *)
(* Little-endian digit sequences, base 10000: the cubic of _smooth01 on a  *)
(* phase with a denominator of 500000 units does not fit 32 bits.          *)

BigBase == 100 * 100

RECURSIVE BigOf(_)
BigOf(n) == IF n < BigBase THEN <<n>> ELSE <<n % BigBase>> \o BigOf(n \div BigBase)

RECURSIVE BigAddC(_, _, _)
BigAddC(x, y, c) ==
  IF x = <<>> /\ y = <<>> THEN (IF c = 0 THEN <<>> ELSE <<c>>)
  ELSE LET a == IF x = <<>> THEN 0 ELSE Head(x)
           b == IF y = <<>> THEN 0 ELSE Head(y)
           s == a + b + c
       IN  <<s % BigBase>> \o BigAddC(IF x = <<>> THEN <<>> ELSE Tail(x),
                                      IF y = <<>> THEN <<>> ELSE Tail(y),
                                      s \div BigBase)

BigAdd(x, y) == BigAddC(x, y, 0)

RECURSIVE BigMulDigit(_, _, _)
BigMulDigit(x, d, c) ==
  IF x = <<>> THEN (IF c = 0 THEN <<>> ELSE <<c>>)
  ELSE LET p == Head(x) * d + c
       IN  <<p % BigBase>> \o BigMulDigit(Tail(x), d, p \div BigBase)

RECURSIVE BigMul(_, _)
BigMul(x, y) ==
  IF y = <<>> THEN <<>>
  ELSE BigAdd(BigMulDigit(x, Head(y), 0), <<0>> \o BigMul(x, Tail(y)))

RECURSIVE BigTrim(_)
BigTrim(x) ==
  IF x = <<>> THEN <<>>
  ELSE IF x[Len(x)] = 0 THEN BigTrim(SubSeq(x, 1, Len(x) - 1)) ELSE x

RECURSIVE BigLeqT(_, _)
BigLeqT(x, y) ==
  IF Len(x) # Len(y) THEN Len(x) < Len(y)
  ELSE IF x = <<>> THEN TRUE
  ELSE IF x[Len(x)] # y[Len(y)] THEN x[Len(x)] < y[Len(y)]
  ELSE BigLeqT(SubSeq(x, 1, Len(x) - 1), SubSeq(y, 1, Len(y) - 1))

BigLeq(x, y) == BigLeqT(BigTrim(x), BigTrim(y))

(* --------------------------- program constants ------------------------- *)

\* 11.0 seconds per line, in 20 microsecond units (line 42)
DefaultDuration == 11 * 50000
\* controls defaults, tenths (lines 52-53)
DefaultTextSpeed == 10
DefaultTextGlitch == 3
\* the dt floor Math.max(0.001, ...), in milliseconds (line 139)
MinDt == 1
\* _lastTs = null (lines 65, 79)
Null == -1

\* this.glitchGlyphs (line 59), one token per UTF-16 unit
glitchGlyphs ==
  << "0", "1", "Delta", "Sigma", "Xi", "Omega", "approx", "sinewave",
     "lambda", "micro", "Omega", "fhook", "tripletilde", "lefthalf",
     "righthalf", "shade2", "shade1", "shade3", "fullblock", "#", "/", "%",
     "\\", "|", "+", "<", ">", "squares", "hourglass", "boxedsquare",
     "lozenge", "electricarrow", "house", "zigzag" >>

\* the characters _applyGlitch never touches (line 232)
Separators == {" ", "nbsp", "/", "\\", "|", ":", "-", "emdash", "middot", ","}

\* the built-in lines (lines 31-38), each cut to its first character
DefaultLines == << <<"A">>, <<"S">>, <<"N">>, <<"S">>, <<"S">>, <<"P">> >>

(* ----------------------------- pure helpers ---------------------------- *)

\* _clamp01 on a fixed-point value whose 1.0 is `one`
clamp01(v, one) == IF v < 0 THEN 0 ELSE IF v > one THEN one ELSE v

\* _safeEnergy without its try/catch: the provider's exception leaves it
safeEnergy_NoCatch(raw) ==
  IF raw.t = "throw" THEN Throw
  ELSE IF raw.t # "number" THEN Num(0)
  ELSE Num(clamp01(raw.v, 2))

\* _safeEnergy: raw is what this.getEnergy() did (returned or threw);
\* the result is in halves
safeEnergy(raw) ==
  IF raw.t = "throw" THEN Num(0)
  ELSE IF raw.t # "number" THEN Num(0)
  ELSE Num(clamp01(raw.v, 2))

\* x || dflt for a registry value: 0, NaN and undefined are falsy
OrDefault(x, dflt) == IF x.t = "number" /\ x.v # 0 THEN x.v ELSE dflt

\* effectiveSpeed, in fiftieths: baseSpeed (tenths) * (0.6 + 0.8 * energy) (fifths)
effectiveSpeed(ctl, energy) == OrDefault(ctl.textSpeed, 10) * (3 + 2 * energy)

\* the wrap loop of _update
RECURSIVE wrap(_, _, _, _)
wrap(el, idx, dur, n) ==
  IF el > dur THEN wrap(el - dur, (idx + 1) % n, dur, n)
  ELSE [elapsed |-> el, index |-> idx]

\* _update: dt in milliseconds, energy the sampled energy
update(el, idx, dur, n, ctl, dt, energy) ==
  wrap(el + dt * effectiveSpeed(ctl, energy), idx, dur, n)

\* _smooth01 of a / b (b > 0): x * x * (3 - 2 * x), exactly
smooth01(a, b) ==
  LET x == clamp01(a, b)
  IN  [num |-> BigMul(BigMul(BigOf(x), BigOf(x)), BigOf(3 * b - 2 * x)),
       den |-> BigMul(BigMul(BigOf(b), BigOf(b)), BigOf(b))]

\* _computeRevealPhase without its second half: the rising curve throughout
computeRevealPhase_NoMirror(num, den) == smooth01(2 * num, den)

\* _computeRevealPhase of phase = num / den
computeRevealPhase(num, den) ==
  IF 2 * num < den THEN smooth01(2 * num, den)
  ELSE smooth01(2 * (den - num), den)

\* Math.floor(len * p) for a rational p >= 0: the number of k >= 1 with
\* k <= len * p, counted up to len + 1 (exact for every p below 1 + 1 / len,
\* and above len for every other p)
floorMul(len, p) ==
  LET n == BigMul(BigOf(len), p.num)
  IN  Cardinality({k \in 1..(len + 1) : BigLeq(BigMul(BigOf(k), p.den), n)})

\* glitchIntensity with `this.controls.textGlitch || 0.3` for its base
glitchIntensity_BaseFloor(ctl, el, dur, energy) ==
  clamp01(7 * OrDefault(ctl.textGlitch, 3) * dur
            + 3 * energy * (3 * dur + 7 * (dur - Abs(2 * el - dur))),
          100 * dur)

\* glitchIntensity of _applyGlitch, times 100 * dur:
\* clamp01(base * 0.7 + energy * 0.6 * (0.3 + 0.7 * centerWeight)),
\* centerWeight = 1 - |phase - 0.5| * 2 = (dur - |2 el - dur|) / dur
glitchIntensity(ctl, el, dur, energy) ==
  clamp01(7 * OrDefault(ctl.textGlitch, 0) * dur
            + 3 * energy * (3 * dur + 7 * (dur - Abs(2 * el - dur))),
          100 * dur)

\* the per-character loop of _applyGlitch. draws[i] is what the two
\* Math.random() calls did at position i: 0 when the first draw was not below
\* prob, else the 1-based glyph index of the second. local = (sin(..)+1)/2
\* is not computed: a draw below prob = glitchIntensity * local is possible
\* only when glitchIntensity > 0, and then either outcome is allowed.
\* the per-character loop without its separator test (line 232)
RECURSIVE glitchChars_NoSeparators(_, _, _, _)
glitchChars_NoSeparators(text, i, intensity, draws) ==
  IF i > Len(text) THEN <<>>
  ELSE LET ch == text[i]
           out == IF intensity > 0 /\ draws[i] # 0 THEN glitchGlyphs[draws[i]]
                  ELSE ch
       IN  <<out>> \o glitchChars_NoSeparators(text, i + 1, intensity, draws)

RECURSIVE glitchChars(_, _, _, _)
glitchChars(text, i, intensity, draws) ==
  IF i > Len(text) THEN <<>>
  ELSE LET ch == text[i]
           out == IF ch \in Separators THEN ch
                  ELSE IF intensity > 0 /\ draws[i] # 0 THEN glitchGlyphs[draws[i]]
                  ELSE ch
       IN  <<out>> \o glitchChars(text, i + 1, intensity, draws)

applyGlitch(text, ctl, el, dur, energy, draws) ==
  glitchChars(text, 1, glitchIntensity(ctl, el, dur, energy), draws)

\* the visible prefix: line.slice(0, floor(line.length * revealPhase))
baseVisible(line, el, dur) ==
  SubSeq(line, 1, Max(0, floorMul(Len(line), computeRevealPhase(el, dur))))

\* what _render writes to el.textContent; shown is its baseVisible
render(lns, shown, idx, el, dur, ctl, energy, draws) ==
  LET line == lns[idx + 1]
  IN  IF line = <<>> THEN <<>>
      ELSE applyGlitch(shown, ctl, el, dur, energy, draws)

\* what getCurrentRenderedText returns; shown is its baseVisible
\* (line.slice(0, visibleLen), with no Math.max and no empty-line return)
getCurrentRenderedText(shown, el, dur, ctl, energy, draws) ==
  applyGlitch(shown, ctl, el, dur, energy, draws)

(* ------------------------------- inputs -------------------------------- *)

Names == {"textSpeed", "textGlitch"}

\* two lines, the second the empty string; one line ending in a separator
TwoLines == << <<"A", " ">>, <<>> >>
OneLine == << <<"X", ":">> >>

Arr(seq) == [t |-> "array", v |-> seq]
NotArr == [t |-> "string", v |-> <<>>]

\* arguments of setLines: a one-line array, the empty array and a non-array
LinesArgs == {Arr(OneLine), Arr(<<>>), NotArr}

\* arguments of setControl: 0, NaN and a string
ControlArgs == {Num(0), NaN, Str}

\* what a call of the energy provider does: throws, or returns NaN, a
\* string, -0.5, 1.0 or 1.5
ProviderOutcomes == {Throw, NaN, Str, Num(-1), Num(2), Num(3)}

\* frame intervals of the clock, milliseconds
Deltas == {5000}

\* outcomes of the two Math.random() calls at one character: 0 (kept), or
\* the substituted glyph's index (the first glyph, and "/", a separator)
GlyphDraws == {0, 21}

MaxClock == 10000
MaxPending == 2

\* options.lines omitted
NoLines == [t |-> "undefined", v |-> <<>>]

\* the options objects handed to the constructor (duration in tenths of a
\* second): nothing but the element; a full set; no element; and elements
\* with lines that are empty, omitted or no array and a duration that is 0,
\* negative, NaN or a string
Options ==
  { [element |-> TRUE, lines |-> NotArr, duration |-> Undefined,
     getEnergy |-> FALSE, controls |-> << >>],
    [element |-> TRUE, lines |-> Arr(TwoLines), duration |-> Num(30),
     getEnergy |-> TRUE, controls |-> [textGlitch |-> Num(0)]],
    [element |-> FALSE, lines |-> Arr(TwoLines), duration |-> Num(100),
     getEnergy |-> TRUE, controls |-> << >>],
    [element |-> TRUE, lines |-> Arr(<<>>), duration |-> Num(0),
     getEnergy |-> FALSE, controls |-> << >>],
    [element |-> TRUE, lines |-> NoLines, duration |-> Num(-10),
     getEnergy |-> FALSE, controls |-> << >>],
    [element |-> TRUE, lines |-> NotArr, duration |-> NaN,
     getEnergy |-> FALSE, controls |-> << >>],
    [element |-> TRUE, lines |-> NoLines, duration |-> Str,
     getEnergy |-> FALSE, controls |-> << >>] }

(* -------------------------------- state -------------------------------- *)

VARIABLES
  constructed,  \* the constructor returned (it throws without options.element)
  lines,        \* this.lines
  duration,     \* this.duration
  getEnergy,    \* TRUE: options.getEnergy; FALSE: the built-in () => 0
  controls,     \* this.controls
  index,        \* this.index
  elapsed,      \* this.elapsed
  running,      \* this.running
  lastTs,       \* this._lastTs
  el,           \* this.el.textContent
  pending,      \* _loop callbacks requested for the next frame
  firing,       \* _loop callbacks of the current frame not yet run
  clock,        \* the timestamp of the current frame
  last          \* the last operation, its inputs and the state it started in

prog == <<constructed, lines, duration, getEnergy, controls, index, elapsed,
          running, lastTs, el, pending, firing, clock>>
vars == <<constructed, lines, duration, getEnergy, controls, index, elapsed,
          running, lastTs, el, pending, firing, clock, last>>

\* what is kept of the state an operation started in
Snapshot == [index |-> index, running |-> running]

NoArg == [t |-> "none", v |-> <<>>]
NoTick == [ran |-> FALSE, dt |-> 0, rawU |-> Undefined, samples |-> 0,
           energyU |-> 0, energyR |-> 0, speed |-> 0, raised |-> FALSE]

Op(name, arg, key, tick) ==
  [op |-> name, arg |-> arg, key |-> key, tick |-> tick, pre |-> Snapshot]

\* the calls of the energy provider an operation can see
Outcomes(provided) == IF provided THEN ProviderOutcomes ELSE {Num(0)}

\* the Math.random() outcomes of one _applyGlitch call on n characters
DrawSeqs(n) == [1..n -> GlyphDraws]

(* ----------------------------- constructor ----------------------------- *)

\* Object.assign(defaults, options.controls || {})
assignControls(over) ==
  [n \in Names |->
     IF n \in DOMAIN over THEN over[n]
     ELSE IF n = "textSpeed" THEN Num(DefaultTextSpeed) ELSE Num(DefaultTextGlitch)]

\* the constructor with `options.duration >= 0` for its duration test
construct_ZeroDuration(o) ==
  [ok |-> o.element,
   lines |-> IF o.lines.t = "array" /\ Len(o.lines.v) > 0
             THEN o.lines.v ELSE DefaultLines,
   duration |-> IF o.duration.t = "number" /\ o.duration.v >= 0
                THEN o.duration.v * 5000 ELSE DefaultDuration,
   getEnergy |-> o.getEnergy,
   controls |-> assignControls(o.controls)]

\* the fields after new CryptoTextEngine(o); ok is FALSE when it throws
construct(o) ==
  [ok |-> o.element,
   lines |-> IF o.lines.t = "array" /\ Len(o.lines.v) > 0
             THEN o.lines.v ELSE DefaultLines,
   duration |-> IF o.duration.t = "number" /\ o.duration.v > 0
                THEN o.duration.v * 5000 ELSE DefaultDuration,
   getEnergy |-> o.getEnergy,
   controls |-> assignControls(o.controls)]

\* the text the element held before the engine wrote to it
InitialText == <<"~">>

Init ==
  \E o \in Options :
    LET c == construct(o) IN
    /\ constructed = c.ok
    /\ lines = IF c.ok THEN c.lines ELSE <<>>
    /\ duration = IF c.ok THEN c.duration ELSE 0
    /\ getEnergy = (c.ok /\ c.getEnergy)
    /\ controls = IF c.ok THEN c.controls ELSE assignControls(<< >>)
    /\ index = 0
    /\ elapsed = 0
    /\ running = FALSE
    /\ lastTs = Null
    /\ el = InitialText
    /\ pending = 0
    /\ firing = 0
    /\ clock = 0
    /\ last = [op |-> "new", arg |-> [t |-> "options", v |-> o], key |-> "",
               tick |-> NoTick, pre |-> [index |-> 0, running |-> FALSE]]

(* ------------------------------ public API ----------------------------- *)

\* start() without its running check
start_NoGuard(r, ts, p) == [running |-> TRUE, lastTs |-> Null, pending |-> p + 1]

\* start() that leaves _lastTs as it was
start_KeepsTs(r, ts, p) ==
  IF r THEN [running |-> r, lastTs |-> ts, pending |-> p]
  ELSE [running |-> TRUE, lastTs |-> ts, pending |-> p + 1]

\* start(): the fields it leaves
start(r, ts, p) ==
  IF r THEN [running |-> r, lastTs |-> ts, pending |-> p]
  ELSE [running |-> TRUE, lastTs |-> Null, pending |-> p + 1]

Start ==
  /\ constructed
  /\ running \/ pending + firing < MaxPending
  /\ LET s == start(running, lastTs, pending) IN
     /\ running' = s.running
     /\ lastTs' = s.lastTs
     /\ pending' = s.pending
  /\ last' = Op("start", NoArg, "", NoTick)
  /\ UNCHANGED <<constructed, lines, duration, getEnergy, controls, index,
                 elapsed, el, firing, clock>>

\* stop()
stop(r) == FALSE

Stop ==
  /\ constructed
  /\ running' = stop(running)
  /\ last' = Op("stop", NoArg, "", NoTick)
  /\ UNCHANGED <<constructed, lines, duration, getEnergy, controls, index,
                 elapsed, lastTs, el, pending, firing, clock>>

\* reset() that also forgets the last-tick timestamp
reset_ClearsTs(idx, e, r, ts) ==
  [index |-> 0, elapsed |-> 0, running |-> r, lastTs |-> Null]

\* reset(): the fields it leaves
reset(idx, e, r, ts) == [index |-> 0, elapsed |-> 0, running |-> r, lastTs |-> ts]

Reset ==
  /\ constructed
  /\ LET s == reset(index, elapsed, running, lastTs) IN
     /\ index' = s.index
     /\ elapsed' = s.elapsed
     /\ running' = s.running
     /\ lastTs' = s.lastTs
  /\ last' = Op("reset", NoArg, "", NoTick)
  /\ UNCHANGED <<constructed, lines, duration, getEnergy, controls, el,
                 pending, firing, clock>>

\* setLines that replaces the lines and does not call reset()
setLines_NoReset(arg, lns, idx, e) ==
  IF arg.t = "array" /\ Len(arg.v) > 0
  THEN [lines |-> arg.v, index |-> idx, elapsed |-> e]
  ELSE [lines |-> lns, index |-> idx, elapsed |-> e]

\* setLines that calls reset() outside its guard
setLines_ResetAlways(arg, lns, idx, e) ==
  IF arg.t = "array" /\ Len(arg.v) > 0
  THEN [lines |-> arg.v, index |-> 0, elapsed |-> 0]
  ELSE [lines |-> lns, index |-> 0, elapsed |-> 0]

\* setLines that calls reset() and keeps the lines it had
setLines_KeepsLines(arg, lns, idx, e) ==
  IF arg.t = "array" /\ Len(arg.v) > 0
  THEN [lines |-> lns, index |-> 0, elapsed |-> 0]
  ELSE [lines |-> lns, index |-> idx, elapsed |-> e]

\* setLines(arg): lines, index and elapsed after the call
setLines(arg, lns, idx, e) ==
  IF arg.t = "array" /\ Len(arg.v) > 0
  THEN [lines |-> arg.v, index |-> 0, elapsed |-> 0]
  ELSE [lines |-> lns, index |-> idx, elapsed |-> e]

SetLines ==
  /\ constructed
  /\ \E arg \in LinesArgs :
       LET s == setLines(arg, lines, index, elapsed) IN
       /\ lines' = s.lines
       /\ index' = s.index
       /\ elapsed' = s.elapsed
       /\ last' = Op("setLines", arg, "", NoTick)
  /\ UNCHANGED <<constructed, duration, getEnergy, controls, running, lastTs,
                 el, pending, firing, clock>>

\* setControl(name, value): the registry after the call
setControl(ctl, name, value) ==
  IF ~IsNumberType(value) THEN ctl ELSE [ctl EXCEPT ![name] = value]

SetControl ==
  /\ constructed
  /\ \E name \in Names, value \in ControlArgs :
       /\ controls' = setControl(controls, name, value)
       /\ last' = Op("setControl", [t |-> value.t, v |-> <<value.v>>], name, NoTick)
  /\ UNCHANGED <<constructed, lines, duration, getEnergy, index, elapsed,
                 running, lastTs, el, pending, firing, clock>>

(* --------------------------- the frame loop ---------------------------- *)

\* the browser begins a frame: the callbacks requested so far will run
\* with the frame's timestamp
BeginFrame ==
  /\ firing = 0
  /\ \E d \in Deltas :
       /\ clock + d <= MaxClock
       /\ clock' = clock + d
  /\ firing' = pending
  /\ pending' = 0
  /\ last' = Op("frame", NoArg, "", NoTick)
  /\ UNCHANGED <<constructed, lines, duration, getEnergy, controls, index,
                 elapsed, running, lastTs, el>>

\* dt of _loop(ts), milliseconds: Math.max(0.001, (ts - this._lastTs) / 1000)
loopDt(ts, prev) == Max(MinDt, ts - (IF prev = Null THEN ts ELSE prev))

\* _loop(ts) without its running check: a callback on a stopped engine
\* requests the next one
LoopStopped_Reschedules ==
  /\ constructed
  /\ firing > 0
  /\ ~running
  /\ firing' = firing - 1
  /\ pending' = pending + 1
  /\ last' = Op("loop", NoArg, "", NoTick)
  /\ UNCHANGED <<constructed, lines, duration, getEnergy, controls, index,
                 elapsed, running, lastTs, el, clock>>

\* _loop(ts) with this.running false: returns at once
LoopStopped ==
  /\ constructed
  /\ firing > 0
  /\ ~running
  /\ firing' = firing - 1
  /\ last' = Op("loop", NoArg, "", NoTick)
  /\ UNCHANGED <<constructed, lines, duration, getEnergy, controls, index,
                 elapsed, running, lastTs, el, pending, clock>>

\* _loop(ts) with this.running true: _update(dt), _render() and the next
\* requestAnimationFrame. An exception of _safeEnergy would leave the handler
\* where it was raised.
LoopRunning ==
  /\ constructed
  /\ firing > 0
  /\ running
  /\ firing' = firing - 1
  /\ lastTs' = clock
  \* _update's sample of the energy: eU is what _safeEnergy returns, rawU
  \* (chosen below) a provider call that makes it return eU
  /\ \E eU \in {safeEnergy(raw) : raw \in Outcomes(getEnergy)} :
       LET dt == loopDt(clock, lastTs)
           okU == eU.t = "number"
           u  == IF okU
                 THEN update(elapsed, index, duration, Len(lines), controls, dt, eU.v)
                 ELSE [elapsed |-> elapsed, index |-> index]
       IN  /\ elapsed' = u.elapsed
           /\ index' = u.index
           \* the prefix _render shows, computed once for all draws
           /\ \E shown \in {baseVisible(lines[u.index + 1], u.elapsed, duration)} :
              \* _render's own sample of the energy, after _safeEnergy; it
              \* returns before sampling when the line is empty
              \E rawU \in {raw \in Outcomes(getEnergy) : safeEnergy(raw) = eU},
                 eR \in IF lines[u.index + 1] = <<>> THEN {Num(0)}
                        ELSE {safeEnergy(rawR) : rawR \in Outcomes(getEnergy)},
                 draws \in DrawSeqs(Len(shown)) :
                LET okR == okU /\ eR.t = "number"
                IN  /\ el' = IF okR
                             THEN render(lines, shown, u.index, u.elapsed, duration,
                                         controls, eR.v, draws)
                             ELSE el
                    /\ pending' = IF okR THEN pending + 1 ELSE pending
                    /\ last' = Op("loop", NoArg, "",
                                  [ran |-> TRUE, dt |-> dt, rawU |-> rawU,
                                   samples |-> IF okU /\ lines[u.index + 1] # <<>>
                                               THEN 2 ELSE 1,
                                   energyU |-> IF okU THEN eU.v ELSE 0,
                                   energyR |-> IF okR THEN eR.v ELSE 0,
                                   speed |-> IF okU THEN effectiveSpeed(controls, eU.v)
                                             ELSE 0,
                                   raised |-> ~okR])
  /\ UNCHANGED <<constructed, lines, duration, getEnergy, controls, running, clock>>

\* getCurrentRenderedText() that assigns its text to the element, as
\* _render does
GetCurrentRenderedText_Writes ==
  /\ constructed
  /\ \E shown \in {SubSeq(lines[index + 1], 1,
                           floorMul(Len(lines[index + 1]),
                                    computeRevealPhase(elapsed, duration)))} :
     \E e \in {safeEnergy(raw) : raw \in Outcomes(getEnergy)},
        draws \in DrawSeqs(Len(shown)) :
       LET text == getCurrentRenderedText(shown, elapsed, duration, controls, e.v, draws)
       IN  /\ el' = text
           /\ last' = Op("getCurrentRenderedText", [t |-> "text", v |-> text], "",
                         [NoTick EXCEPT !.raised = e.t # "number"])
  /\ UNCHANGED <<constructed, lines, duration, getEnergy, controls, index,
                 elapsed, running, lastTs, pending, firing, clock>>

\* getCurrentRenderedText(): a read. last.arg is the text it returns and
\* last.tick.raised tells whether an exception of _safeEnergy left it
GetCurrentRenderedText ==
  /\ constructed
  /\ \E shown \in {SubSeq(lines[index + 1], 1,
                           floorMul(Len(lines[index + 1]),
                                    computeRevealPhase(elapsed, duration)))} :
     \E e \in {safeEnergy(raw) : raw \in Outcomes(getEnergy)},
        draws \in DrawSeqs(Len(shown)) :
       LET text == getCurrentRenderedText(shown, elapsed, duration, controls, e.v, draws)
       IN  last' = Op("getCurrentRenderedText", [t |-> "text", v |-> text], "",
                      [NoTick EXCEPT !.raised = e.t # "number"])
  /\ UNCHANGED prog

Next ==
  \/ Start
  \/ Stop
  \/ Reset
  \/ SetLines
  \/ SetControl
  \/ BeginFrame
  \/ LoopStopped
  \/ LoopRunning
  \/ GetCurrentRenderedText

Spec == Init /\ [][Next]_vars

(* ------------------------- one tick, from mid-run ---------------------- *)
(* A frame callback and a read on an engine that has been running for a    *)
(* while: four lines carrying every separator, 10 s per line, the timeline *)
(* anywhere on a grid of whole seconds.                                    *)

\* the lines of the running engine: all ten separators, and an empty line
TickLines ==
  << <<"A", " ", "nbsp", "/", "B">>,
     <<"\\", "|", "C", ":">>,
     <<>>,
     <<"-", "emdash", "D", "middot", ",">> >>

\* engines constructed with a duration of 10 s and an energy provider
TickOptions ==
  { [element |-> TRUE, lines |-> Arr(TickLines), duration |-> Num(100),
     getEnergy |-> TRUE, controls |-> << >>] }

\* the registries setControl has left: textSpeed 1.0 or 2.0; textGlitch 0,
\* 0.3, 2.0 or NaN
TickControls ==
  { [textSpeed |-> sp, textGlitch |-> gl] :
      sp \in {Num(10), Num(20)}, gl \in {Num(0), Num(3), Num(20), NaN} }

\* elapsed of the running engine: every whole second of the line
TickElapsed == { sec * 50000 : sec \in 0..9 }

\* the frame's timestamp, and how long before it the last tick ran (ms)
TickClock == 60 * 1000
TickGaps == {5000, 10000, 50000}

\* the engine after earlier ticks, its next callback about to run: the
\* element shows the current prefix, _lastTs is null after a stop() and
\* start(), else the time of the last tick
TickInit ==
  \E o \in TickOptions, ctl \in TickControls, e \in TickElapsed :
    LET c == construct(o) IN
    \E idx \in 0..(Len(c.lines) - 1), ts \in {Null} \cup {TickClock - g : g \in TickGaps} :
      /\ constructed = c.ok
      /\ lines = c.lines
      /\ duration = c.duration
      /\ getEnergy = c.getEnergy
      /\ controls = ctl
      /\ index = idx
      /\ elapsed = e
      /\ running = TRUE
      /\ lastTs = ts
      /\ el = baseVisible(c.lines[idx + 1], e, c.duration)
      /\ pending = 0
      /\ firing = 1
      /\ clock = TickClock
      /\ last = [op |-> "frame", arg |-> NoArg, key |-> "", tick |-> NoTick,
                 pre |-> [index |-> idx, running |-> TRUE]]

TickNext ==
  \/ LoopRunning
  \/ GetCurrentRenderedText

TickSpec == TickInit /\ [][TickNext]_vars

(* ------------------------------- claims -------------------------------- *)

\* the last operation was a frame callback that ran _update and _render
Ticked == constructed /\ last.op = "loop" /\ last.tick.ran

\* C1: after every timeline advance, 0 <= elapsed < duration.
C1_ElapsedBelowDuration == Ticked => (0 <= elapsed /\ elapsed < duration)

\* C2: an advance that brings elapsed to exactly duration moves the index to
\* the next line (modulo the number of lines) and leaves elapsed at 0.
C2_ExactBoundaryWraps ==
  [][(last'.op = "loop" /\ last'.tick.ran
        /\ elapsed + last'.tick.dt * last'.tick.speed = duration)
       => (index' = (index + 1) % Len(lines) /\ elapsed' = 0)]_vars

\* C3: in every reachable state of a constructed engine,
\* 0 <= index < length(lines).
C3_IndexInRange == constructed => (0 <= index /\ index < Len(lines))

\* C3 witness: setLines replaced two lines by one while index was 1.
C3_Witness ==
  /\ constructed
  /\ last.op = "setLines"
  /\ last.arg = Arr(OneLine)
  /\ last.pre.index = 1
  /\ Len(lines) = 1

\* C4: start() while running changes nothing (no further callback, running
\* and _lastTs as they were); stop() while stopped changes nothing.
C4_StartStopIdempotent ==
  [][/\ (last'.op = "start" /\ running) => UNCHANGED prog
     /\ (last'.op = "stop" /\ ~running) => UNCHANGED prog]_vars

\* C4 witness: start() was called on a running engine whose first callback
\* is still outstanding, and exactly one callback is outstanding.
C4_Witness ==
  /\ last.op = "start"
  /\ last.pre.running
  /\ lastTs = Null
  /\ pending + firing = 1

\* C5: stop() clears running and leaves index and elapsed; running stays
\* false until a start(); a frame callback that fires while running is false
\* changes neither index, elapsed nor the sink and requests no callback.
C5_StopFreezes ==
  [][/\ last'.op = "stop" => (~running' /\ index' = index /\ elapsed' = elapsed)
     /\ (~running /\ last'.op # "start") => ~running'
     /\ (last'.op = "loop" /\ ~running)
          => (UNCHANGED <<index, elapsed, el, pending, running, lastTs>>
              /\ firing' = firing - 1)]_vars

\* C5 witness: a callback fired on a stopped engine that had advanced, and
\* no callback is outstanding any more.
C5_Witness ==
  /\ last.op = "loop"
  /\ ~last.tick.ran
  /\ ~running
  /\ elapsed > 0
  /\ pending + firing = 0

\* C6: the effective speed of every tick is controls.textSpeed *
\* (0.6 + 0.8 * energy), for every number held as textSpeed, 0 included.
C6_SpeedIsTextSpeedTimesBand ==
  (Ticked /\ controls.textSpeed.t = "number")
    => last.tick.speed = controls.textSpeed.v * (3 + 2 * last.tick.energyU)

\* C7: setControl changes the registry only when value is a number other than
\* NaN; a non-number or NaN leaves the registry as it was, and every other
\* control is unchanged in all cases.
C7_SetControlIgnoresNonNumeric ==
  [][last'.op = "setControl"
       => /\ \A n \in Names \ {last'.key} : controls'[n] = controls[n]
          /\ last'.arg.t # "number" => controls' = controls
          /\ last'.arg.t = "number"
               => controls'[last'.key] = Num(last'.arg.v[1])]_vars

\* C8: setLines with an empty array or a non-array changes nothing.
C8_SetLinesInvalidNoOp ==
  [][(last'.op = "setLines" /\ last'.arg \in {Arr(<<>>), NotArr})
       => UNCHANGED prog]_vars

\* C8 witness: setLines([]) was called on a running engine that stands on
\* its second line, part of the way through it.
C8_Witness ==
  /\ last.op = "setLines"
  /\ last.arg = Arr(<<>>)
  /\ running
  /\ index = 1
  /\ elapsed > 0

\* C9: the sampled energy is in [0, 1]: 0 when the provider throws or returns
\* a non-number or NaN, else the provider's value clamped; no exception
\* leaves a tick or getCurrentRenderedText.
C9_SafeEnergy ==
  /\ Ticked =>
       LET raw == last.tick.rawU
           e == last.tick.energyU
       IN  /\ ~last.tick.raised
           /\ 0 <= e /\ e <= 2
           /\ raw.t # "number" => e = 0
           /\ (raw.t = "number" /\ raw.v < 0) => e = 0
           /\ (raw.t = "number" /\ raw.v > 2) => e = 2
           /\ (raw.t = "number" /\ 0 <= raw.v /\ raw.v <= 2) => e = raw.v
  /\ last.op = "getCurrentRenderedText" => ~last.tick.raised

\* C9 witness: the provider threw during a tick, and the tick completed and
\* requested the next callback.
C9_Witness ==
  /\ Ticked
  /\ last.tick.rawU = Throw
  /\ ~last.tick.raised
  /\ pending > 0

\* C10: reset() sets index and elapsed to 0 and leaves running, _lastTs,
\* lines, duration, controls and the outstanding callbacks.
C10_ResetOnlyTimeline ==
  [][last'.op = "reset"
       => /\ index' = 0
          /\ elapsed' = 0
          /\ UNCHANGED <<running, lastTs, lines, duration, controls, el,
                         pending, firing, clock, getEnergy>>]_vars

\* C10 witness: reset() on a running engine that stood on its second line,
\* with a callback outstanding and a last-tick timestamp set.
C10_Witness ==
  /\ last.op = "reset"
  /\ running
  /\ last.pre.index = 1
  /\ lastTs # Null
  /\ pending + firing > 0

\* C14: a constructor call without an element throws and leaves no engine
\* (no operation of it ever runs); every constructed engine starts stopped
\* with index 0, elapsed 0, no callback requested, its lines non-empty (the
\* given array when that is a non-empty array, else the built-in lines) and
\* its duration positive (the given number when that is above 0, else 11.0).
C14_Constructor ==
  /\ ~constructed => (last.op \in {"new", "frame"} /\ ~running /\ pending + firing = 0)
  /\ last.op = "new" =>
       LET o == last.arg.v IN
       /\ constructed = o.element
       /\ constructed =>
            /\ ~running /\ index = 0 /\ elapsed = 0 /\ lastTs = Null
            /\ pending + firing = 0
            /\ Len(lines) > 0
            /\ lines = IF o.lines.t = "array" /\ o.lines.v # <<>>
                       THEN o.lines.v ELSE DefaultLines
            /\ duration > 0
            /\ duration = IF o.duration.t = "number" /\ o.duration.v > 0
                          THEN o.duration.v * 5000 ELSE DefaultDuration

\* C14 witness: an engine constructed with an empty lines array and a duration
\* of 0 holds the built-in lines and the default duration.
C14_Witness ==
  /\ last.op = "new"
  /\ constructed
  /\ last.arg.v.lines = Arr(<<>>)
  /\ last.arg.v.duration = Num(0)
  /\ lines = DefaultLines
  /\ duration = DefaultDuration

\* C11: getCurrentRenderedText() leaves index, elapsed, running, _lastTs,
\* lines, controls and the element's text as they were and requests no frame
\* callback.
C11_ReadIsPure ==
  [][last'.op = "getCurrentRenderedText"
       => UNCHANGED <<index, elapsed, running, lastTs, lines, controls, duration,
                      el, pending, firing>>]_vars

\* C11 witness: getCurrentRenderedText() returned a text other than the one
\* on the element, on a running engine part of the way through a line with a
\* callback outstanding.
C11_Witness ==
  /\ last.op = "getCurrentRenderedText"
  /\ running
  /\ elapsed > 0
  /\ pending + firing = 1
  /\ last.arg.v # el

\* the prefix the last tick or read handed to _applyGlitch
Shown ==
  SubSeq(lines[index + 1], 1,
         floorMul(Len(lines[index + 1]), computeRevealPhase(elapsed, duration)))

\* out has the length of text and text's separators where they were
KeepsShape(text, out) ==
  /\ Len(out) = Len(text)
  /\ \A i \in 1..Len(text) : text[i] \in Separators => out[i] = text[i]

\* C12: what _applyGlitch returns has the length of its input, with every
\* separator of the input unchanged at its position, for every textGlitch,
\* energy, phase and outcome of Math.random(): both for the text a tick
\* writes to the element and for the text getCurrentRenderedText returns.
C12_GlitchKeepsShape ==
  /\ (Ticked /\ lines[index + 1] # <<>>) => KeepsShape(Shown, el)
  /\ last.op = "getCurrentRenderedText" => KeepsShape(Shown, last.arg.v)

\* C12 witness: a tick wrote a fully revealed line of five characters with
\* both of its letters substituted and its three separators in place.
C12_Witness ==
  /\ Ticked
  /\ Len(el) = 5
  /\ el # lines[index + 1]
  /\ \A i \in 1..5 : (el[i] = lines[index + 1][i]) <=> (lines[index + 1][i] \in Separators)
  /\ Cardinality({i \in 1..5 : lines[index + 1][i] \in Separators}) = 3

\* C13: a tick with textGlitch 0 whose render sampled energy 0 writes the
\* revealed prefix with no character substituted, whatever Math.random()
\* returns; when it ends at elapsed = duration / 2 the prefix is the whole
\* line.
C13_NoGlitchFullLine ==
  (Ticked /\ controls.textGlitch = Num(0) /\ last.tick.energyR = 0)
    => /\ el = IF lines[index + 1] = <<>> THEN <<>> ELSE Shown
       /\ 2 * elapsed = duration => el = lines[index + 1]

\* C13 witness: such a tick ended at the middle of a line of five characters
\* and the element shows the line.
C13_Witness ==
  /\ Ticked
  /\ controls.textGlitch = Num(0)
  /\ last.tick.energyR = 0
  /\ last.tick.samples = 2
  /\ 2 * elapsed = duration
  /\ Len(lines[index + 1]) = 5
  /\ el = lines[index + 1]

\* C16: a tick whose time elapsed + dt * speed holds k whole durations moves
\* the index by k modulo the number of lines and leaves elapsed at that time
\* minus k * duration.
C16_AdvanceByK ==
  [][(last'.op = "loop" /\ last'.tick.ran)
       => LET total == elapsed + last'.tick.dt * last'.tick.speed
              k == total \div duration
          IN  /\ index' = (index + k) % Len(lines)
              /\ elapsed' = total - k * duration]_vars

\* the same, for the ticks whose time is no whole multiple of the duration
C16_AdvanceByK_OffBoundary ==
  [][(last'.op = "loop" /\ last'.tick.ran
        /\ (elapsed + last'.tick.dt * last'.tick.speed) % duration # 0)
       => LET total == elapsed + last'.tick.dt * last'.tick.speed
              k == total \div duration
          IN  /\ index' = (index + k) % Len(lines)
              /\ elapsed' = total - k * duration]_vars

\* C15: setLines with a non-empty array makes lines that array, sets index
\* and elapsed to 0 and leaves running, controls and duration (and _lastTs,
\* the element and the outstanding callbacks), stopped or running.
C15_SetLinesReplacesAndResets ==
  [][(last'.op = "setLines" /\ last'.arg.t = "array" /\ last'.arg.v # <<>>)
       => /\ lines' = last'.arg.v
          /\ index' = 0
          /\ elapsed' = 0
          /\ UNCHANGED <<running, controls, duration, lastTs, el, pending,
                         firing>>]_vars

\* C15 witness: setLines replaced the two lines of a running engine that had
\* ticked and stood on its second line; the engine is still running and its
\* callback still outstanding.
C15_Witness ==
  /\ last.op = "setLines"
  /\ lines = OneLine
  /\ last.pre.index = 1
  /\ last.pre.running
  /\ running
  /\ index = 0
  /\ elapsed = 0
  /\ lastTs # Null
  /\ pending + firing = 1

\* C15 witness, stopped: the same on an engine that was stopped.
C15_WitnessStopped ==
  /\ last.op = "setLines"
  /\ lines = OneLine
  /\ last.pre.index = 1
  /\ ~last.pre.running
  /\ ~running

\* C17: at most one _loop callback of the engine is outstanding (requested
\* and not yet run), in every reachable state.
C17_OneOutstandingCallback == pending + firing <= 1

\* the timeline is advanced at most once per frame: no tick follows a tick
\* without a new frame in between
C17_OneAdvancePerFrame ==
  [][~(last.op = "loop" /\ last.tick.ran /\ last'.op = "loop" /\ last'.tick.ran)]_vars

\* C18: every step that takes the engine from stopped to running leaves
\* _lastTs null; a tick that finds _lastTs null uses the floor of 0.001 s,
\* every other tick uses max(0.001 s, ts - _lastTs) with the _lastTs of the
\* tick before it, which was taken while running; dt is above 0 in all ticks
\* and the tick leaves _lastTs at its own timestamp.
C18_StoppedTimeNotCounted ==
  [][/\ (~running /\ running') => (last'.op = "start" /\ lastTs' = Null)
     /\ (~running /\ ~running') => lastTs' = lastTs
     /\ (last'.op = "loop" /\ last'.tick.ran)
          => /\ running
             /\ last'.tick.dt > 0
             /\ lastTs = Null => last'.tick.dt = MinDt
             /\ lastTs # Null => last'.tick.dt = Max(MinDt, clock - lastTs)
             /\ lastTs' = clock]_vars

\* C18 witness: an engine ticked in one frame, was stopped and started again,
\* and its first tick in a later frame used the floor of 0.001 s.
C18_Witness ==
  /\ Ticked
  /\ last.tick.dt = MinDt
  /\ firing = 1
  /\ elapsed > last.tick.dt * last.tick.speed
  /\ lastTs = clock

\* C19: the energy that scaled the speed of a tick is the energy that scaled
\* the glitch of the text the tick wrote (one sample serves both).
C19_EnergySampledOnce ==
  (Ticked /\ lines[index + 1] # <<>>) => last.tick.energyR = last.tick.energyU

\* a tick calls _safeEnergy, and with it the provider, once
C19_OneProviderCall == Ticked => last.tick.samples = 1

\* equality of two exact naturals
BigEq(x, y) == BigLeq(x, y) /\ BigLeq(y, x)

\* C20: at every phase elapsed / duration in [0, 1) the reveal fraction is in
\* [0, 1], is 0 at phase 0 and 1 at phase 0.5, and is the same at the phases
\* 0.5 - d and 0.5 + d; the visible length floor(L * fraction) is in 0..L.
C20_RevealCurve ==
  (constructed /\ 0 <= elapsed /\ elapsed < duration) =>
    LET p == computeRevealPhase(elapsed, duration)
        q == computeRevealPhase(duration - elapsed, duration)
        L == Len(lines[index + 1])
        n == floorMul(L, p)
    IN  /\ BigLeq(p.num, p.den)
        /\ elapsed = 0 => BigEq(p.num, BigOf(0))
        /\ 2 * elapsed = duration => BigEq(p.num, p.den)
        /\ elapsed > 0 => (BigEq(p.num, q.num) /\ BigEq(p.den, q.den))
        /\ 0 <= n /\ n <= L

\* C20 witness: a tick ended at phase 0.8 of a line of five characters and
\* wrote one of them, as a tick that ends at phase 0.2 does.
C20_Witness ==
  /\ Ticked
  /\ 5 * elapsed = 4 * duration
  /\ Len(lines[index + 1]) = 5
  /\ Len(el) = 1
  /\ Len(baseVisible(lines[index + 1], duration - elapsed, duration)) = 1

=============================================================================
